---- MODULE Spec2Model ----
(***************************************************************************)
(* State-machine model of fastAPI.py: a FastAPI application with one       *)
(* endpoint, POST /chat, that forwards a message plus the conversation's   *)
(* buffered history to a streaming chat model and relays the generated     *)
(* tokens to the caller while the chain runs as an asyncio task.           *)
(*                                                                         *)
(* Every request is an async generator (generate_response) plus the task   *)
(* created for chain.arun.  The event loop is single threaded: one action  *)
(* is the code a coroutine runs between two suspension points.  The remote *)
(* model is the environment: it emits tokens, ends, fails, or does nothing *)
(* at all.                                                                 *)
(***************************************************************************)
EXTENDS Integers, Sequences, FiniteSets, TLC

\* Bounds of the model.
MaxReq == 2        \* requests accepted in one behaviour
MaxTokens == 2     \* token fragments the remote model emits in one behaviour

ConversationIds == {"cat", "dog"}
Messages == {"hi"}
\* The fragments the remote model emits are all different, so that every
\* fragment in a stream can be traced to the generation it came from.
Tokens == <<"x", "y", "z", "u", "v", "w">>
\* OPENAI_API_KEY is defined by the process environment or by the .env file,
\* or by neither.
EnvSources == {"defined", "missing"}

None == 0
Requests == 1..MaxReq

VARIABLES
    env,        \* whether the provider API key is defined (fixed at process start)
    server,     \* "starting", "running" or "failed"
    memories,   \* self.memories: conversation_id -> memory object (a reference)
    buffers,    \* heap of ConversationBufferMemory objects: reference -> messages
    nreq,       \* number of /chat requests accepted so far
    req,        \* ChatRequest of each request
    pc,         \* position of each request's generate_response generator
    status,     \* HTTP status line sent to the caller, once it is sent
    memory,     \* local variable memory of the generator (a reference)
    run,        \* state of the task created for chain.arun
    calls,      \* number of remote generation calls issued for the request
    context,    \* messages submitted to the remote model (history + input)
    queue,      \* token queue of each AsyncIteratorCallbackHandler
    done,       \* done event of each AsyncIteratorCallbackHandler
    produced,   \* tokens the remote model has emitted for the request
    stream      \* body fragments delivered to the caller

vars == <<env, server, memories, buffers, nreq, req, pc, status, memory, run,
          calls, context, queue, done, produced, stream>>

srvVars == <<env, server>>
memVars == <<memories, buffers>>
genVars == <<nreq, req, pc, status, memory>>
taskVars == <<run, calls, context>>
cbVars == <<queue, done>>

----------------------------------------------------------------------------
\* Pure helpers

RECURSIVE Concat(_)
\* "".join(tokens): the text a sequence of token fragments amounts to.
Concat(toks) ==
    IF toks = <<>> THEN "" ELSE Head(toks) \o Concat(Tail(toks))

RECURSIVE Emitted(_)
\* Number of tokens the remote model has emitted for requests 1..n.
Emitted(n) ==
    IF n = 0 THEN 0 ELSE Len(produced[n]) + Emitted(n - 1)

\* The next fragment the remote model emits.
NextToken ==
    Tokens[(Emitted(MaxReq) % Len(Tokens)) + 1]

IsPrefix(s, t) ==
    /\ Len(s) <= Len(t)
    /\ SubSeq(t, 1, Len(s)) = s

\* Variant of Settings: the field openai_api_key has a default value.
SettingsWithDefault(e) ==
    IF e = "missing" THEN "" ELSE "sk-key"

\* Settings(): the value of openai_api_key, or a ValidationError when the
\* required field is found neither in the environment nor in .env.
Settings(e) ==
    IF e = "missing" THEN "ValidationError" ELSE "sk-key"

\* Variant of GetMemory: the lookup ignores the key and returns a memory of the mapping.
GetAnyMemory(mems, conversation_id) ==
    IF DOMAIN mems # {} THEN mems[CHOOSE c \in DOMAIN mems : TRUE] ELSE None

\* Variant of GetMemory: the lookup never finds a memory.
GetNoMemory(mems, conversation_id) ==
    None

\* self.memories.get(conversation_id)
GetMemory(mems, conversation_id) ==
    IF conversation_id \in DOMAIN mems THEN mems[conversation_id] ELSE None

\* Variant of CallbackHandler: one callback handler is shared by all requests.
SharedCallbackHandler(r) ==
    1

\* callback_handler = AsyncIteratorCallbackHandler(): one handler per call of
\* generate_response, identified by the request it was made for.
CallbackHandler(r) ==
    r

HumanMessage(r, text) == [type |-> "human", content |-> text, of |-> r]
AIMessage(r, text) == [type |-> "ai", content |-> text, of |-> r]

\* Variant of Prompt: the prompt leaves the history out.
PromptWithoutHistory(history, r, input) ==
    <<HumanMessage(r, input)>>

\* The prompt of the chain: the history placeholder followed by the input.
Prompt(history, r, input) ==
    history \o <<HumanMessage(r, input)>>

\* Variant of SaveContext: the exchange is appended to the history as the chain loaded it.
SaveContextStale(history, r, input, output) ==
    SubSeq(context[r], 1, Len(context[r]) - 1)
        \o <<HumanMessage(r, input), AIMessage(r, output)>>

\* memory.save_context(inputs, outputs): two appends with no suspension
\* point between them.
SaveContext(history, r, input, output) ==
    history \o <<HumanMessage(r, input), AIMessage(r, output)>>

\* Variant of AiterExhausted: the iteration ends as soon as the done event is set.
AiterEndsOnDone(q, d) ==
    d

\* AsyncIteratorCallbackHandler.aiter(): the iteration ends when the queue
\* is empty and the done event is set.
AiterExhausted(q, d) ==
    q = <<>> /\ d

----------------------------------------------------------------------------
Init ==
    /\ env \in EnvSources
    /\ server = "starting"
    /\ memories = <<>>
    /\ buffers = <<>>
    /\ nreq = 0
    /\ req = [r \in Requests |-> [conversation_id |-> "", message |-> ""]]
    /\ pc = [r \in Requests |-> "none"]
    /\ status = [r \in Requests |-> "not sent"]
    /\ memory = [r \in Requests |-> None]
    /\ run = [r \in Requests |-> "none"]
    /\ calls = [r \in Requests |-> 0]
    /\ context = [r \in Requests |-> <<>>]
    /\ queue = [r \in Requests |-> <<>>]
    /\ done = [r \in Requests |-> FALSE]
    /\ produced = [r \in Requests |-> <<>>]
    /\ stream = [r \in Requests |-> <<>>]

\* Module import: StreamingConversationChain(openai_api_key =
\* get_settings().openai_api_key).  A ValidationError aborts the import and
\* the server never runs.
Startup ==
    /\ server = "starting"
    /\ server' = IF Settings(env) = "ValidationError" THEN "failed" ELSE "running"
    /\ memories' = <<>>
    /\ UNCHANGED <<env, buffers, genVars, taskVars, cbVars, produced, stream>>

\* POST /chat: the endpoint builds the generator and returns the
\* StreamingResponse; nothing of the generator has run yet.
Chat(conversation_id, message) ==
    /\ server = "running"
    /\ nreq < MaxReq
    /\ nreq' = nreq + 1
    /\ req' = [req EXCEPT ![nreq + 1] =
                  [conversation_id |-> conversation_id, message |-> message]]
    /\ pc' = [pc EXCEPT ![nreq + 1] = "response"]
    /\ UNCHANGED <<srvVars, memVars, status, memory, taskVars, cbVars,
                   produced, stream>>

\* The response starts (status 200 and headers go out) and the body
\* iterator takes its first step: the generator runs from its first line to
\* the first suspension inside aiter(), with no suspension in between.
StartStream(r) ==
    /\ pc[r] = "response"
    /\ status' = [status EXCEPT ![r] = "200 OK"]
    /\ LET cid == req[r].conversation_id
           found == GetMemory(memories, cid)
           fresh == Len(buffers) + 1
       IN  IF found = None
           THEN /\ buffers' = Append(buffers, <<>>)
                /\ memories' = [c \in DOMAIN memories \cup {cid} |->
                                   IF c = cid THEN fresh ELSE memories[c]]
                /\ memory' = [memory EXCEPT ![r] = fresh]
           ELSE /\ memory' = [memory EXCEPT ![r] = found]
                /\ UNCHANGED <<memories, buffers>>
    /\ run' = [run EXCEPT ![r] = "created"]
    /\ pc' = [pc EXCEPT ![r] = "iterating"]
    /\ UNCHANGED <<srvVars, nreq, req, calls, context, cbVars, produced, stream>>

\* The task of chain.arun starts: the chain loads the history of its memory,
\* formats the prompt and issues the remote generation call.
RunStart(r) ==
    /\ run[r] = "created"
    /\ context' = [context EXCEPT ![r] =
                      Prompt(buffers[memory[r]], r, req[r].message)]
    /\ calls' = [calls EXCEPT ![r] = @ + 1]
    /\ run' = [run EXCEPT ![r] = "generating"]
    /\ UNCHANGED <<srvVars, memVars, genVars, cbVars, produced, stream>>

\* The remote model emits one token: on_llm_new_token puts it on the queue
\* of the request's callback handler.
LLMNewToken(r, token) ==
    /\ run[r] = "generating"
    /\ Emitted(MaxReq) < MaxTokens
    /\ produced' = [produced EXCEPT ![r] = Append(@, token)]
    /\ queue' = [queue EXCEPT ![CallbackHandler(r)] = Append(@, token)]
    /\ UNCHANGED <<srvVars, memVars, genVars, taskVars, done, stream>>

\* The remote generation completes: on_llm_end sets the done event.
LLMEnd(r) ==
    /\ run[r] = "generating"
    /\ done' = [done EXCEPT ![CallbackHandler(r)] = TRUE]
    /\ run' = [run EXCEPT ![r] = "generated"]
    /\ UNCHANGED <<srvVars, memVars, genVars, calls, context, queue,
                   produced, stream>>

\* Variant of LLMError: a failed generation is issued a second time.
LLMErrorRetry(r) ==
    /\ run[r] = "generating"
    /\ IF calls[r] < 2
       THEN /\ run' = [run EXCEPT ![r] = "created"]
            /\ UNCHANGED done
       ELSE /\ done' = [done EXCEPT ![CallbackHandler(r)] = TRUE]
            /\ run' = [run EXCEPT ![r] = "failed"]
    /\ UNCHANGED <<srvVars, memVars, genVars, calls, context, queue,
                   produced, stream>>

\* The remote generation fails: on_llm_error sets the done event and the
\* exception becomes the result of the task.  Nothing issues the call again.
LLMError(r) ==
    /\ run[r] = "generating"
    /\ done' = [done EXCEPT ![CallbackHandler(r)] = TRUE]
    /\ run' = [run EXCEPT ![r] = "failed"]
    /\ UNCHANGED <<srvVars, memVars, genVars, calls, context, queue,
                   produced, stream>>

\* The chain saves the completed exchange to its memory and the task ends.
RunFinish(r) ==
    /\ run[r] = "generated"
    /\ buffers' = [buffers EXCEPT ![memory[r]] =
                      SaveContext(@, r, req[r].message, Concat(produced[r]))]
    /\ run' = [run EXCEPT ![r] = "done"]
    /\ UNCHANGED <<srvVars, memories, genVars, calls, context, cbVars,
                   produced, stream>>

\* Variant of YieldToken: the token taken from the queue is not yielded.
YieldNothing(r) ==
    /\ pc[r] = "iterating"
    /\ queue[CallbackHandler(r)] # <<>>
    /\ queue' = [queue EXCEPT ![CallbackHandler(r)] = Tail(@)]
    /\ UNCHANGED <<srvVars, memVars, genVars, taskVars, done, produced, stream>>

\* async for token in callback_handler.aiter(): yield token
YieldToken(r) ==
    /\ pc[r] = "iterating"
    /\ queue[CallbackHandler(r)] # <<>>
    /\ stream' = [stream EXCEPT ![r] = Append(@, Head(queue[CallbackHandler(r)]))]
    /\ queue' = [queue EXCEPT ![CallbackHandler(r)] = Tail(@)]
    /\ UNCHANGED <<srvVars, memVars, genVars, taskVars, done, produced>>

\* The iteration over aiter() ends and the generator reaches "await run".
AiterEnd(r) ==
    /\ pc[r] = "iterating"
    /\ AiterExhausted(queue[CallbackHandler(r)], done[CallbackHandler(r)])
    /\ pc' = [pc EXCEPT ![r] = "await_run"]
    /\ UNCHANGED <<srvVars, memVars, nreq, req, status, memory, taskVars,
                   cbVars, produced, stream>>

\* Variant of AwaitRun: the generator returns without awaiting the task.
ReturnWithoutAwait(r) ==
    /\ pc[r] = "await_run"
    /\ pc' = [pc EXCEPT ![r] = IF run[r] = "failed" THEN "aborted" ELSE "closed"]
    /\ UNCHANGED <<srvVars, memVars, nreq, req, status, memory, taskVars,
                   cbVars, produced, stream>>

\* await run: the generator returns when the task has ended (the body is
\* complete and the stream closes), or the task's exception is raised out of
\* the generator, which aborts a response that has already started.
AwaitRun(r) ==
    /\ pc[r] = "await_run"
    /\ run[r] \in {"done", "failed"}
    /\ pc' = [pc EXCEPT ![r] = IF run[r] = "failed" THEN "aborted" ELSE "closed"]
    /\ UNCHANGED <<srvVars, memVars, nreq, req, status, memory, taskVars,
                   cbVars, produced, stream>>

Next ==
    \/ Startup
    \/ \E c \in ConversationIds, m \in Messages : Chat(c, m)
    \/ \E r \in Requests : StartStream(r)
    \/ \E r \in Requests : RunStart(r)
    \/ \E r \in Requests : LLMNewToken(r, NextToken)
    \/ \E r \in Requests : LLMEnd(r)
    \/ \E r \in Requests : LLMError(r)
    \/ \E r \in Requests : RunFinish(r)
    \/ \E r \in Requests : YieldToken(r)
    \/ \E r \in Requests : AiterEnd(r)
    \/ \E r \in Requests : AwaitRun(r)

Spec == Init /\ [][Next]_vars

\* The event loop runs every coroutine that is ready: the generator of a
\* request and the task of its chain.  The remote model and the callers are
\* under no obligation.
Generator(r) ==
    \/ StartStream(r)
    \/ YieldToken(r)
    \/ AiterEnd(r)
    \/ AwaitRun(r)

Task(r) ==
    \/ RunStart(r)
    \/ RunFinish(r)

FairSpec ==
    Spec /\ \A r \in Requests : WF_vars(Generator(r)) /\ WF_vars(Task(r))

----------------------------------------------------------------------------
\* Vocabulary of the properties

Conv(r) == req[r].conversation_id
Started(r) == pc[r] \notin {"none", "response"}
Response(r) == Concat(produced[r])

\* The stored history of a conversation.
HistoryOf(c) ==
    IF c \in DOMAIN memories THEN buffers[memories[c]] ELSE <<>>

\* The exchange of request r stands at positions i, i+1 of h.
ExchangeAt(h, i, r) ==
    /\ i + 1 <= Len(h)
    /\ h[i] = HumanMessage(r, req[r].message)
    /\ h[i + 1] = AIMessage(r, Response(r))

ExchangeIn(h, r) == \E i \in DOMAIN h : ExchangeAt(h, i, r)

\* No stored message, in any memory object, belongs to request r.
NothingStoredOf(r) ==
    \A b \in DOMAIN buffers : \A i \in DOMAIN buffers[b] : buffers[b][i].of # r

\* The exchange of request r is stored in its memory object, and no other
\* stored message belongs to r.
StoredOnce(r) ==
    \E i \in DOMAIN buffers[memory[r]] :
        /\ ExchangeAt(buffers[memory[r]], i, r)
        /\ \A b \in DOMAIN buffers : \A j \in DOMAIN buffers[b] :
               buffers[b][j].of = r => (b = memory[r] /\ j \in {i, i + 1})

----------------------------------------------------------------------------
\* C1: when the chain of a request loads its context while an earlier request
\* of the same conversation has finished (its stream is closed), the context
\* submitted to the remote model holds that request's user message followed
\* by its generated response.
C1_MemoryAccumulates ==
    [][\A r1, r2 \in Requests :
          ( /\ r1 # r2
            /\ Conv(r1) = Conv(r2)
            /\ pc[r1] = "closed"
            /\ run[r2] = "created"
            /\ run'[r2] = "generating" )
          => ExchangeIn(context'[r2], r1)]_vars

C1_Witness ==
    \E r1, r2 \in Requests :
        /\ r1 # r2
        /\ pc[r1] = "closed"
        /\ produced[r1] # <<>>
        /\ run[r2] = "generating"
        /\ Len(context[r2]) = 3
        /\ ExchangeAt(context[r2], 1, r1)

\* C2: distinct conversation identifiers never share memory state: they have
\* distinct memory objects, the history of a conversation and the context of
\* a request hold only messages of requests of that conversation, and the
\* history of a conversation changes only when the chain of one of its own
\* requests saves its exchange.
C2_Isolated ==
    /\ \A c1, c2 \in DOMAIN memories : c1 # c2 => memories[c1] # memories[c2]
    /\ \A c \in DOMAIN memories : \A i \in DOMAIN HistoryOf(c) :
           Conv(HistoryOf(c)[i].of) = c
    /\ \A r \in Requests : \A i \in DOMAIN context[r] :
           Conv(context[r][i].of) = Conv(r)

C2_OwnWritesOnly ==
    \A c \in ConversationIds :
        HistoryOf(c)' # HistoryOf(c) =>
            \E r \in Requests :
                /\ Conv(r) = c
                /\ run[r] = "generated"
                /\ run'[r] = "done"

C2_NoSharedMemory == [] C2_Isolated /\ [][C2_OwnWritesOnly]_vars

C2_Witness ==
    \E r1, r2 \in Requests :
        /\ Conv(r1) # Conv(r2)
        /\ run[r1] = "done"
        /\ run[r2] = "done"
        /\ Len(HistoryOf(Conv(r1))) = 2
        /\ Len(HistoryOf(Conv(r2))) = 2

\* C3: the body delivered to the caller of a request is at every moment a
\* prefix of the tokens the remote model produced for that request, and is
\* the whole of them once the iteration over the handler has ended: nothing
\* is lost, duplicated, reordered or taken from another request.
C3_StreamIsGeneration ==
    \A r \in Requests :
        /\ IsPrefix(stream[r], produced[r])
        /\ produced[r] = stream[r] \o queue[r]
        /\ pc[r] \in {"await_run", "closed", "aborted"} => stream[r] = produced[r]

C3_Witness ==
    \E r1, r2 \in Requests :
        /\ r1 # r2
        /\ Len(context[r1]) = 1
        /\ Len(context[r2]) = 1
        /\ pc[r1] = "closed"
        /\ stream[r1] = <<"x">>
        /\ pc[r2] = "closed"
        /\ stream[r2] = <<"y">>

\* C4: a stream is closed only after the generation has completed and every
\* generated token has been delivered; while the remote call is outstanding
\* the stream stays open, however long that lasts; and under fair scheduling
\* of the runtime's coroutines every completed generation leads to a closed
\* stream.
C4_ClosedOnlyWhenComplete ==
    \A r \in Requests :
        /\ pc[r] = "closed" => run[r] = "done" /\ stream[r] = produced[r]
        /\ run[r] \in {"created", "generating"} => pc[r] = "iterating"

C4_StreamCloses ==
    /\ [] C4_ClosedOnlyWhenComplete
    /\ \A r \in Requests : (run[r] \in {"generated", "done"}) ~> (pc[r] = "closed")

C4_Witness ==
    \E r1, r2 \in Requests :
        /\ pc[r1] = "closed"
        /\ stream[r1] = <<"x", "y">>
        /\ run[r2] = "generating"
        /\ pc[r2] = "iterating"

\* C5: when the provider API key is in neither the environment nor the
\* environment file, the server never runs and no /chat request is accepted.
C5_NoKeyNoServer ==
    env = "missing" => server # "running" /\ nreq = 0

C5_Witness ==
    env = "missing" /\ server = "failed"

C7_Original ==
    \A r \in Requests :
        pc[r] = "aborted" =>
            calls[r] = 1 /\ status[r] = "500 Internal Server Error"

\* C7 as amended: the generation of a request is issued at most once, and a
\* failure was issued exactly once and is raised out of the body generator
\* of a response that has already started with status 200, after the tokens
\* generated so far have been delivered: the caller sees a stream cut short,
\* not a server error response.
C7_NoRetryAbortsStream ==
    \A r \in Requests :
        /\ calls[r] <= 1
        /\ run[r] = "failed" => calls[r] = 1
        /\ pc[r] = "aborted" =>
               /\ run[r] = "failed"
               /\ status[r] = "200 OK"
               /\ stream[r] = produced[r]

C7_Witness ==
    \E r \in Requests :
        /\ pc[r] = "aborted"
        /\ stream[r] # <<>>
        /\ status[r] = "200 OK"

\* C8: there is one memory object per conversation identifier in the
\* mapping, it exists as soon as a request of the conversation has started
\* (hence before its remote call), and every started request holds the
\* object the mapping holds now: no object was removed or replaced.
C8_OneSlotPerConversation ==
    /\ Len(buffers) = Cardinality(DOMAIN memories)
    /\ \A r \in Requests :
           Started(r) =>
               /\ Conv(r) \in DOMAIN memories
               /\ memory[r] = memories[Conv(r)]
    /\ \A r \in Requests : calls[r] > 0 => Started(r)

C8_Witness ==
    \E r1, r2 \in Requests :
        /\ r1 # r2
        /\ Conv(r1) = Conv(r2)
        /\ pc[r1] = "iterating"
        /\ pc[r2] = "iterating"
        /\ run[r1] = "created"
        /\ run[r2] = "created"
        /\ memory[r1] = memory[r2]

\* C9: the exchange of a request is stored exactly once when its chain has
\* completed, which is after its last token and before its stream closes,
\* and not at all otherwise: a failed request stores nothing.
C9_AppendedOnceOnSuccess ==
    \A r \in Requests :
        /\ run[r] = "done" => StoredOnce(r)
        /\ run[r] # "done" => NothingStoredOf(r)
        /\ pc[r] = "closed" => run[r] = "done"
        /\ run[r] = "generated" => pc[r] \in {"iterating", "await_run"}

C9_Witness ==
    \E r1, r2 \in Requests :
        /\ Conv(r1) = Conv(r2)
        /\ pc[r1] = "closed"
        /\ pc[r2] = "aborted"
        /\ produced[r2] # <<>>
        /\ Len(HistoryOf(Conv(r1))) = 2

\* C10: the history of a conversation is a sequence of whole exchanges, each
\* user message immediately followed by the response of the same request,
\* and holds the exchange of every request of the conversation whose chain
\* has completed, whatever the interleaving of the requests.
C10_NoLostExchange ==
    \A c \in DOMAIN memories :
        LET h == HistoryOf(c)
        IN  /\ Len(h) % 2 = 0
            /\ \A i \in DOMAIN h : i % 2 = 1 => ExchangeAt(h, i, h[i].of)
            /\ \A r \in Requests :
                   (run[r] = "done" /\ Conv(r) = c) => ExchangeIn(h, r)

C10_Witness ==
    \E r1, r2 \in Requests :
        /\ r1 # r2
        /\ Conv(r1) = Conv(r2)
        /\ pc[r1] = "closed"
        /\ pc[r2] = "closed"
        /\ Len(context[r1]) = 1
        /\ Len(context[r2]) = 1
        /\ Len(HistoryOf(Conv(r1))) = 4

====
